---------------------------- MODULE Spec2Model ----------------------------
(***************************************************************************)
(* A model of the exp command-line front end: the two action wrappers      *)
(* (asyncAction, asyncActionProjectDir), the update checker, the bundle    *)
(* progress-bar callbacks, the entry point (run, runAsync, writePathAsync) *)
(* and the publish action.                                                 *)
(*                                                                         *)
(* Four specifications share the module, one per part of the program:      *)
(*   SpecCmd      one invocation of a wrapped command                      *)
(*   SpecBar      the PackagerLogsStream build callbacks                   *)
(*   SpecRun      the entry point and command dispatch                     *)
(*   SpecPublish  the publish action                                       *)
(***************************************************************************)
EXTENDS Integers, Sequences, FiniteSets, TLC

VARIABLES
    \* ---- one invocation of a wrapped command (asyncAction / asyncActionProjectDir)
    cmd,          \* how the command was registered and invoked
    pc,           \* position of the wrapper (the await it is suspended at)
    trace,        \* the steps that have run, in order
    out,          \* the lines printed, in order
    err,          \* the failure in flight (NoErr when none)
    failedAt,     \* the step that threw ("none" when none)
    exitCode,     \* Running until process.exit(n) is called
    projectDir,   \* the projectDir local of asyncActionProjectDir
    handlerArgs,  \* the arguments the wrapped handler was called with
    handlerInvoked,
    env,          \* collaborators' state: Config.offline, log.config.raw, spinner, ...
    \* ---- the PackagerLogsStream build callbacks
    bar,          \* the closure variable `bar`: NoBar or a ProgressBar
    live,         \* ids of the ProgressBars created and not torn down
    nextId,       \* number of ProgressBars created so far
    logBar,       \* id of the bar log.setBundleProgressBar was last given, 0 for null
    barOut,       \* summaries printed by onFinishBuildBundle
    session,      \* bookkeeping of the current build session
    \* ---- the entry point
    argv,         \* process.argv from index 2 on
    runPc,        \* position of run()
    wp,           \* the promise of writePathAsync
    ra,           \* the outcome of runAsync
    runOut,       \* what was printed by runAsync and run
    ranHandler,   \* name of the command whose handler commander executed
    runExit,      \* Running until process.exit(n)
    \* ---- the publish action
    pub           \* state of one call of the publish action

cmdVars == <<cmd, pc, trace, out, err, failedAt, exitCode, projectDir,
             handlerArgs, handlerInvoked, env>>
barVars == <<bar, live, nextId, logBar, barOut, session>>
runVars == <<argv, runPc, wp, ra, runOut, ranHandler, runExit>>
pubVars == <<pub>>
vars == <<cmdVars, barVars, runVars, pubVars>>

\* exitCode and runExit before process.exit is called
Running == 0 - 1

(***************************************************************************)
(* Failures.  The error boundary discriminates on three marker fields.     *)
(***************************************************************************)
NoErr == [none |-> TRUE]

Errors == [_isCommandError : BOOLEAN, _isApiError : BOOLEAN, isXDLError : BOOLEAN]

PlainError == [_isCommandError |-> FALSE, _isApiError |-> FALSE, isXDLError |-> FALSE]

Tagged(e) == e._isCommandError \/ e._isApiError \/ e.isXDLError

Line(by, fn, text) == [by |-> by, fn |-> fn, text |-> text]

(***************************************************************************)
(* path.resolve(process.cwd(), projectDir) on paths held as sequences of   *)
(* segments; an argument is [abs, segs].                                   *)
(***************************************************************************)
Cwd == <<"home", "u">>

NoDir == [none |-> TRUE]

DirArgs == { NoDir,
             [abs |-> FALSE, segs |-> <<"app">>],
             [abs |-> FALSE, segs |-> <<"..", "app">>],
             [abs |-> TRUE,  segs |-> <<"srv", "app">>] }

RECURSIVE Normalize(_, _)
Normalize(done, rest) ==
    IF rest = <<>> THEN done
    ELSE IF Head(rest) = ".."
         THEN Normalize(IF done = <<>> THEN <<>> ELSE SubSeq(done, 1, Len(done) - 1),
                        Tail(rest))
         ELSE Normalize(Append(done, Head(rest)), Tail(rest))

PathResolve(cwd, arg) ==
    IF arg.abs THEN Normalize(<<>>, arg.segs) ELSE Normalize(cwd, arg.segs)

ResolveProjectDir(arg) ==
    IF arg = NoDir THEN Cwd ELSE PathResolve(Cwd, arg)


(***************************************************************************)
(* checkForUpdateAsync.  A query is what update.checkForExpUpdateAsync     *)
(* gives: a state, or a rejection.  "deprecated" and "" stand for any      *)
(* state value outside the three the switch names.                         *)
(***************************************************************************)
UpdateStates == {"up-to-date", "out-of-date", "ahead-of-published", "deprecated", ""}

UpdateQueries ==
    [state : UpdateStates, throws : {FALSE}] \cup [state : {"up-to-date"}, throws : {TRUE}]

AdvisoryLine == Line("update", "crayon.green.error", "There is a new version of exp available")

ConfusedLine == Line("update", "log.error", "Confused about what version of exp you have?")

CheckForUpdateLinesPrintsWhenAhead(q) ==
    IF q.throws THEN <<>>
    ELSE CASE q.state = "up-to-date"         -> <<>>
           [] q.state = "out-of-date"        -> <<AdvisoryLine>>
           [] q.state = "ahead-of-published" -> <<AdvisoryLine>>
           [] OTHER                          -> <<ConfusedLine>>

\* what checkForUpdateAsync prints for a query
CheckForUpdateLines(q) ==
    IF q.throws THEN <<>>
    ELSE CASE q.state = "up-to-date"         -> <<>>
           [] q.state = "out-of-date"        -> <<AdvisoryLine>>
           [] q.state = "ahead-of-published" -> <<>>
           [] OTHER                          -> <<ConfusedLine>>

\* try { await checkForUpdateAsync(); } catch (e) {}: where the wrapper goes on
AfterUpdateCheck(q, next) == next

(***************************************************************************)
(* The error boundary of asyncAction: the lines its catch block prints.    *)
(***************************************************************************)
MessageLine == Line("boundary", "log.error", "err.message")

RedMessageLine == Line("boundary", "log.error", "crayon.red(err.message)")

StackLine == Line("boundary", "crayon.gray.error", "err.stack")

HintLine == Line("boundary", "log.error", "Set EXPO_DEBUG=true in your env to view the stack trace.")

BoundaryLinesNoXDLBranch(e, debug) ==
    IF e._isCommandError THEN <<MessageLine>>
    ELSE IF e._isApiError THEN <<RedMessageLine>>
    ELSE <<MessageLine, IF debug THEN StackLine ELSE HintLine>>

\* the catch block of asyncAction, lines 83-101
BoundaryLines(e, debug) ==
    IF e._isCommandError THEN <<MessageLine>>
    ELSE IF e._isApiError THEN <<RedMessageLine>>
    ELSE IF e.isXDLError THEN <<MessageLine>>
    ELSE <<MessageLine, IF debug THEN StackLine ELSE HintLine>>

(***************************************************************************)
(* One invocation of a wrapped command.                                    *)
(***************************************************************************)
Statuses == {"running", "exited", "ill"}

DoctorResults == {"NO_ISSUES", "WARNING", "FATAL"}

Commands ==
    [wrapper : {"asyncAction"}, skipUpdateCheck : BOOLEAN,
     skipProjectValidation : {FALSE}, skipAuthCheck : {FALSE},
     nonInteractive : BOOLEAN, offline : BOOLEAN, raw : BOOLEAN,
     dirArg : {NoDir}, debug : BOOLEAN]
    \cup
    \* asyncActionProjectDir registers through asyncAction(fn, true)
    [wrapper : {"asyncActionProjectDir"}, skipUpdateCheck : {TRUE},
     skipProjectValidation : BOOLEAN, skipAuthCheck : BOOLEAN,
     nonInteractive : BOOLEAN, offline : BOOLEAN, raw : BOOLEAN,
     dirArg : DirArgs, debug : BOOLEAN]

\* the arguments commander passes to the action: the positional one, then the options
OrigArgs(c) ==
    IF c.wrapper = "asyncActionProjectDir" THEN <<c.dirArg, "options">> ELSE <<"options">>

EnvInit ==
    [offline |-> FALSE, raw |-> FALSE, flushed |-> FALSE, spinner |-> FALSE,
     sinkRoot |-> NoDir, loggerRoot |-> NoDir, status |-> "notasked",
     doctor |-> "notrun", update |-> "notasked"]

StepAfterResolveFirst(p) ==
    CASE p = "pd_update"   -> "pd_resolve"
      [] p = "pd_resolve"  -> "pd_login"
      [] p = "pd_login"    -> "pd_ensure"
      [] p = "pd_ensure"   -> "pd_sink"
      [] p = "pd_sink"     -> "pd_attach"
      [] p = "pd_attach"   -> "pd_status"
      [] p = "pd_status"   -> "pd_validate"
      [] p = "pd_validate" -> "handler"

\* the order of the statements of asyncActionProjectDir's body, lines 124-246
StepAfter(p) ==
    CASE p = "pd_update"   -> "pd_login"
      [] p = "pd_login"    -> "pd_ensure"
      [] p = "pd_ensure"   -> "pd_resolve"
      [] p = "pd_resolve"  -> "pd_sink"
      [] p = "pd_sink"     -> "pd_attach"
      [] p = "pd_attach"   -> "pd_status"
      [] p = "pd_status"   -> "pd_validate"
      [] p = "pd_validate" -> "handler"

Throw(e, step) ==
    /\ err' = e
    /\ failedAt' = step
    /\ pc' = "catch"

\* asyncAction, lines 63-67
UpdateCheck ==
    /\ pc = "update"
    /\ IF cmd.skipUpdateCheck
       THEN /\ pc' = "options"
            /\ UNCHANGED <<out, trace, env>>
       ELSE \E q \in UpdateQueries :
              /\ out' = out \o CheckForUpdateLines(q)
              /\ trace' = Append(trace, "update")
              /\ env' = [env EXCEPT !.update = IF q.throws THEN "threw" ELSE q.state]
              /\ pc' = AfterUpdateCheck(q, "options")
    /\ UNCHANGED <<cmd, err, failedAt, exitCode, projectDir, handlerArgs, handlerInvoked>>

\* asyncAction, lines 70-76
ReadOptions ==
    /\ pc = "options"
    /\ env' = [env EXCEPT !.raw = @ \/ cmd.raw, !.offline = @ \/ cmd.offline]
    /\ pc' = IF cmd.wrapper = "asyncAction" THEN "handler" ELSE "pd_update"
    /\ UNCHANGED <<cmd, trace, out, err, failedAt, exitCode, projectDir,
                   handlerArgs, handlerInvoked>>

\* asyncActionProjectDir, lines 124-126
ProjectDirUpdateCheck ==
    /\ pc = "pd_update"
    /\ \E q \in UpdateQueries :
          /\ out' = out \o CheckForUpdateLines(q)
          /\ trace' = Append(trace, "update")
          /\ env' = [env EXCEPT !.update = IF q.throws THEN "threw" ELSE q.state]
          /\ pc' = AfterUpdateCheck(q, StepAfter("pd_update"))
    /\ UNCHANGED <<cmd, err, failedAt, exitCode, projectDir, handlerArgs, handlerInvoked>>

LoginGateIgnoresOffline(c) == ~c.skipAuthCheck /\ ~c.nonInteractive

\* line 129: whether the interactive login-or-register flow runs
LoginGate(c) == ~c.skipAuthCheck /\ ~c.nonInteractive /\ ~c.offline

\* asyncActionProjectDir, lines 128-131
LoginOrRegister ==
    /\ pc = "pd_login"
    /\ IF LoginGate(cmd)
       THEN /\ trace' = Append(trace, "login")
            /\ \/ /\ pc' = StepAfter("pd_login")
                  /\ UNCHANGED <<err, failedAt>>
               \/ \E e \in Errors : Throw(e, "login")
       ELSE /\ pc' = StepAfter("pd_login")
            /\ UNCHANGED <<trace, err, failedAt>>
    /\ UNCHANGED <<cmd, out, exitCode, projectDir, handlerArgs, handlerInvoked, env>>

\* line 133: whether the session assertion runs
EnsureGate(c) == ~c.skipAuthCheck

\* asyncActionProjectDir, lines 133-135
EnsureLoggedIn ==
    /\ pc = "pd_ensure"
    /\ IF EnsureGate(cmd)
       THEN /\ trace' = Append(trace, "ensure")
            /\ \/ /\ pc' = StepAfter("pd_ensure")
                  /\ UNCHANGED <<err, failedAt>>
               \/ \E e \in Errors : Throw(e, "ensure")
       ELSE /\ pc' = StepAfter("pd_ensure")
            /\ UNCHANGED <<trace, err, failedAt>>
    /\ UNCHANGED <<cmd, out, exitCode, projectDir, handlerArgs, handlerInvoked, env>>

\* asyncActionProjectDir, lines 137-141
ResolveDir ==
    /\ pc = "pd_resolve"
    /\ projectDir' = ResolveProjectDir(cmd.dirArg)
    /\ trace' = Append(trace, "resolve")
    /\ pc' = StepAfter("pd_resolve")
    /\ UNCHANGED <<cmd, out, err, failedAt, exitCode, handlerArgs, handlerInvoked, env>>

\* asyncActionProjectDir, lines 162-207
ConstructSink ==
    /\ pc = "pd_sink"
    /\ env' = [env EXCEPT !.sinkRoot = projectDir]
    /\ trace' = Append(trace, "sink")
    /\ pc' = StepAfter("pd_sink")
    /\ UNCHANGED <<cmd, out, err, failedAt, exitCode, projectDir, handlerArgs, handlerInvoked>>

\* asyncActionProjectDir, lines 210-219
AttachLogger ==
    /\ pc = "pd_attach"
    /\ env' = [env EXCEPT !.loggerRoot = projectDir]
    /\ trace' = Append(trace, "attach")
    /\ pc' = StepAfter("pd_attach")
    /\ UNCHANGED <<cmd, out, err, failedAt, exitCode, projectDir, handlerArgs, handlerInvoked>>

\* lines 228-231: whether Doctor runs, given the status the query returned
ValidationGate(c, status) == ~c.skipProjectValidation /\ status # "running"

\* asyncActionProjectDir, lines 228-231
CheckStatus ==
    /\ pc = "pd_status"
    /\ IF ~cmd.skipProjectValidation
       THEN /\ trace' = Append(trace, "status")
            /\ \/ \E s \in Statuses :
                     /\ env' = [env EXCEPT !.status = s]
                     /\ pc' = IF ValidationGate(cmd, s) THEN StepAfter("pd_status") ELSE "handler"
                     /\ UNCHANGED <<err, failedAt>>
               \/ /\ env' = [env EXCEPT !.status = "threw"]
                  /\ \E e \in Errors : Throw(e, "status")
       ELSE /\ pc' = "handler"
            /\ UNCHANGED <<trace, env, err, failedAt>>
    /\ UNCHANGED <<cmd, out, exitCode, projectDir, handlerArgs, handlerInvoked>>

MakingSureLine == Line("wrapper", "log", "Making sure project is set up correctly...")

LooksGoodLine == Line("wrapper", "log", "Your project looks good!")

FatalIgnored(d) == FALSE

\* line 237
IsFatal(d) == d = "FATAL"

\* asyncActionProjectDir, lines 232-244
Validate ==
    /\ pc = "pd_validate"
    /\ trace' = Append(trace, "validate")
    /\ \/ \E d \in DoctorResults :
             IF IsFatal(d)
             THEN /\ out' = Append(out, MakingSureLine)
                  /\ env' = [env EXCEPT !.spinner = TRUE, !.doctor = d]
                  /\ Throw(PlainError, "validate")
             ELSE /\ out' = out \o <<MakingSureLine, LooksGoodLine>>
                  /\ env' = [env EXCEPT !.spinner = FALSE, !.doctor = d]
                  /\ pc' = StepAfter("pd_validate")
                  /\ UNCHANGED <<err, failedAt>>
       \/ /\ out' = Append(out, MakingSureLine)
          /\ env' = [env EXCEPT !.spinner = TRUE, !.doctor = "threw"]
          /\ \E e \in Errors : Throw(e, "validate")
    /\ UNCHANGED <<cmd, exitCode, projectDir, handlerArgs, handlerInvoked>>

\* line 77 (asyncFn(...args)) and line 246 (asyncFn(projectDir, ...args))
HandlerArgs(c, dir) ==
    IF c.wrapper = "asyncActionProjectDir" THEN <<dir>> \o Tail(OrigArgs(c)) ELSE OrigArgs(c)

\* the wrapped handler is called and settles
RunHandler ==
    /\ pc = "handler"
    /\ handlerInvoked' = TRUE
    /\ handlerArgs' = HandlerArgs(cmd, projectDir)
    /\ trace' = Append(trace, "handler")
    /\ \/ /\ pc' = "flush"
          /\ UNCHANGED <<err, failedAt>>
       \/ \E e \in Errors : Throw(e, "handler")
    /\ UNCHANGED <<cmd, out, exitCode, projectDir, env>>

\* asyncAction, line 80
Flush ==
    /\ pc = "flush"
    /\ env' = [env EXCEPT !.flushed = TRUE]
    /\ pc' = "done"
    /\ UNCHANGED <<cmd, trace, out, err, failedAt, exitCode, projectDir,
                   handlerArgs, handlerInvoked>>

\* line 103
ExitStatus == 1

\* asyncAction, lines 81-104
Catch ==
    /\ pc = "catch"
    /\ out' = out \o BoundaryLines(err, cmd.debug)
    /\ exitCode' = ExitStatus
    /\ pc' = "exited"
    /\ UNCHANGED <<cmd, trace, err, failedAt, projectDir, handlerArgs, handlerInvoked, env>>

CmdNext ==
    \/ UpdateCheck /\ UNCHANGED <<barVars, runVars, pubVars>>
    \/ ReadOptions /\ UNCHANGED <<barVars, runVars, pubVars>>
    \/ ProjectDirUpdateCheck /\ UNCHANGED <<barVars, runVars, pubVars>>
    \/ LoginOrRegister /\ UNCHANGED <<barVars, runVars, pubVars>>
    \/ EnsureLoggedIn /\ UNCHANGED <<barVars, runVars, pubVars>>
    \/ ResolveDir /\ UNCHANGED <<barVars, runVars, pubVars>>
    \/ ConstructSink /\ UNCHANGED <<barVars, runVars, pubVars>>
    \/ AttachLogger /\ UNCHANGED <<barVars, runVars, pubVars>>
    \/ CheckStatus /\ UNCHANGED <<barVars, runVars, pubVars>>
    \/ Validate /\ UNCHANGED <<barVars, runVars, pubVars>>
    \/ RunHandler /\ UNCHANGED <<barVars, runVars, pubVars>>
    \/ Flush /\ UNCHANGED <<barVars, runVars, pubVars>>
    \/ Catch /\ UNCHANGED <<barVars, runVars, pubVars>>

(***************************************************************************)
(* The build callbacks of the PackagerLogsStream built by                  *)
(* asyncActionProjectDir, and the ProgressBar they drive.                  *)
(***************************************************************************)
MaxEvents == 5

\* total: 100 in the ProgressBar's options
BarTotal == 100

Percents == {0, 25, 50, 99, 100}

NoBar == [none |-> TRUE]

NoFinish == [none |-> TRUE]

\* new ProgressBar(..., {total: 100, ...})
NewBar(id) == [id |-> id, curr |-> 0, complete |-> FALSE]

\* ProgressBar.tick(len): advance, and complete on reaching the total
Tick(b, len) ==
    [b EXCEPT !.curr = b.curr + len,
              !.complete = b.complete \/ (b.curr + len >= BarTotal)]

ProgressedUnguarded(b, percent) ==
    IF b = NoBar THEN b ELSE Tick(b, percent - b.curr)

\* onProgressBuildBundle's effect on `bar`
Progressed(b, percent) ==
    IF b = NoBar \/ b.complete THEN b
    ELSE IF percent - b.curr > 0 THEN Tick(b, percent - b.curr) ELSE b

\* onFinishBuildBundle, lines 181-183: the forced tick
Finished(b) ==
    IF b # NoBar /\ ~b.complete THEN Tick(b, BarTotal - b.curr) ELSE b

SessionInit ==
    [events |-> 0, event |-> "none", percent |-> 0, prev |-> NoBar,
     advanced |-> 0, last |-> -1, increasing |-> TRUE, finish |-> NoFinish,
     printed |-> 0]

\* onStartBuildBundle, lines 166-171: the value assigned to `bar`
Started(b, id) == NewBar(id)

\* onStartBuildBundle
OnStartBuildBundle ==
    /\ session.events < MaxEvents
    /\ bar' = Started(bar, nextId + 1)
    /\ live' = live \cup {nextId + 1}
    /\ nextId' = nextId + 1
    /\ logBar' = bar'.id
    /\ session' = [session EXCEPT !.events = @ + 1, !.event = "start", !.prev = bar,
                                  !.advanced = 0, !.last = -1, !.increasing = TRUE,
                                  !.printed = 0]
    /\ UNCHANGED barOut

\* onProgressBuildBundle(percent)
OnProgressBuildBundle ==
    /\ session.events < MaxEvents
    /\ \E percent \in Percents :
          /\ bar' = Progressed(bar, percent)
          /\ session' = [session EXCEPT
                            !.events = @ + 1, !.event = "progress", !.percent = percent,
                            !.prev = bar,
                            !.advanced = IF bar = NoBar THEN @ ELSE @ + (bar'.curr - bar.curr),
                            !.last = IF bar = NoBar THEN @ ELSE percent,
                            !.increasing = IF bar = NoBar THEN @ ELSE @ /\ percent > session.last,
                            !.printed = 0]
    /\ UNCHANGED <<live, nextId, logBar, barOut>>

SummaryLinesAlways(b, failed) ==
    <<IF failed THEN "Failed building JavaScript bundle."
                ELSE "Finished building JavaScript bundle">>

\* onFinishBuildBundle, lines 185-199: the summary printed
SummaryLines(b, failed) ==
    IF b # NoBar
    THEN <<IF failed THEN "Failed building JavaScript bundle."
                     ELSE "Finished building JavaScript bundle">>
    ELSE <<>>

\* onFinishBuildBundle(err, startTime, endTime)
OnFinishBuildBundle ==
    /\ session.events < MaxEvents
    /\ \E failed \in BOOLEAN :
          /\ bar' = NoBar
          /\ logBar' = IF bar # NoBar THEN 0 ELSE logBar
          /\ live' = IF bar # NoBar THEN live \ {bar.id} ELSE live
          /\ barOut' = barOut \o SummaryLines(bar, failed)
          /\ session' = [session EXCEPT
                            !.events = @ + 1, !.event = "finish", !.prev = bar,
                            !.finish = IF bar = NoBar THEN NoFinish
                                       ELSE [before |-> bar, tornDown |-> Finished(bar)],
                            !.printed = Len(barOut') - Len(barOut)]
    /\ UNCHANGED nextId

BarNext ==
    \/ OnStartBuildBundle /\ UNCHANGED <<cmdVars, runVars, pubVars>>
    \/ OnProgressBuildBundle /\ UNCHANGED <<cmdVars, runVars, pubVars>>
    \/ OnFinishBuildBundle /\ UNCHANGED <<cmdVars, runVars, pubVars>>

(***************************************************************************)
(* The entry point: run, writePathAsync, runAsync, and commander's parse   *)
(* of process.argv as runAsync relies on it.                               *)
(***************************************************************************)
MaxArgs == 3

NoAlias == ""

\* the command modules: login (alias signin), publish (alias p), and the
\* sub-command writePathAsync names
Registry ==
    { [name |-> "login", alias |-> "signin"],
      [name |-> "publish", alias |-> "p"],
      [name |-> "prepare-detached-build", alias |-> NoAlias] }

\* program.option('-o, --output [format]', ...)
GlobalOptions == {"-o", "--output"}

HelpFlags == {"-h", "--help"}

IsOption(w) == w \in GlobalOptions \cup HelpFlags

Words == {"login", "signin", "publish", "p", "prepare-detached-build", "foo", "raw", "-o"}

RECURSIVE SeqsUpTo(_)
SeqsUpTo(n) ==
    IF n = 0 THEN {<<>>}
    ELSE SeqsUpTo(n - 1) \cup {Append(a, w) : a \in {x \in SeqsUpTo(n - 1) : Len(x) = n - 1}, w \in Words}

Argvs == SeqsUpTo(MaxArgs)

\* runAsync, lines 307-314: the names and aliases of program.commands
CommandNames ==
    {c.name : c \in Registry} \cup {c.alias : c \in {d \in Registry : d.alias # NoAlias}}

CommandOf(w) == (CHOOSE c \in Registry : w = c.name \/ (c.alias # NoAlias /\ w = c.alias)).name

\* commander's parseOptions: the program's own options are taken out (an
\* option with an optional value takes the next word unless that is an
\* option), an unknown option goes to `unknown` with the word after it, the
\* rest are the arguments
RECURSIVE ParseOptions(_, _, _)
ParseOptions(rest, args, unknown) ==
    IF rest = <<>> THEN [args |-> args, unknown |-> unknown]
    ELSE IF Head(rest) \in GlobalOptions
         THEN IF Len(rest) > 1 /\ ~IsOption(rest[2])
              THEN ParseOptions(Tail(Tail(rest)), args, unknown)
              ELSE ParseOptions(Tail(rest), args, unknown)
    ELSE IF IsOption(Head(rest))
         THEN IF Len(rest) > 1 /\ ~IsOption(rest[2])
              THEN ParseOptions(Tail(Tail(rest)), args, unknown \o <<rest[1], rest[2]>>)
              ELSE ParseOptions(Tail(rest), args, Append(unknown, Head(rest)))
    ELSE ParseOptions(Tail(rest), Append(args, Head(rest)), unknown)

WantsHelp(unknown) == \E i \in 1..Len(unknown) : unknown[i] \in HelpFlags

\* program.parse(process.argv), line 302: which handler commander executes,
\* and whether it prints help and exits
Parse(av) ==
    LET p == ParseOptions(av, <<>>, <<>>) IN
    IF p.args # <<>>
    THEN IF p.args[1] \in CommandNames
         THEN IF WantsHelp(p.unknown)
              THEN [handler |-> "none", help |-> "command", exit |-> TRUE]
              ELSE [handler |-> CommandOf(p.args[1]), help |-> "none", exit |-> FALSE]
         ELSE [handler |-> "none", help |-> "none", exit |-> FALSE]
    ELSE IF WantsHelp(p.unknown)
         THEN [handler |-> "none", help |-> "program", exit |-> TRUE]
         ELSE [handler |-> "none", help |-> "none", exit |-> FALSE]

NotACommand(w) == [kind |-> "not an exp command", arg |-> w]

HelpText(which) == [kind |-> "help", arg |-> which]

Reported(what, who) == [kind |-> what, arg |-> who]

\* runAsync, lines 305-322: what is printed after the parse, and whether
\* program.help() ends the process
AfterParse(av) ==
    IF av # <<>>
    THEN [out |-> IF av[1] \notin CommandNames THEN <<NotACommand(av[1])>> ELSE <<>>,
          exit |-> FALSE]
    ELSE [out |-> <<HelpText("program")>>, exit |-> TRUE]

\* writePathAsync, lines 386-390
WritePathSkipped(av) == av # <<>> /\ av[1] = "prepare-detached-build"

\* run, line 398: writePathAsync() is called, then runAsync() runs to its end,
\* and only then is Promise.all given the two results
Run ==
    /\ runPc = "start"
    /\ \/ \* runAsync throws: it prints the failure and rethrows
          /\ ra' = "threw"
          /\ wp' = [state |-> IF WritePathSkipped(argv) THEN "skipped" ELSE "pending",
                    awaited |-> FALSE]
          /\ runOut' = <<Reported("console.error", "runAsync")>>
          /\ runPc' = "rejected"
          /\ UNCHANGED <<ranHandler, runExit>>
       \/ LET p == Parse(argv)
              a == AfterParse(argv) IN
          /\ ranHandler' = p.handler
          /\ IF p.exit
             THEN /\ ra' = "exited"
                  /\ runOut' = <<HelpText(p.help)>>
                  /\ runExit' = 0
                  /\ runPc' = "exited"
                  /\ wp' = [state |-> IF WritePathSkipped(argv) THEN "skipped" ELSE "pending",
                            awaited |-> FALSE]
             ELSE /\ runOut' = a.out
                  /\ IF a.exit
                     THEN /\ ra' = "exited"
                          /\ runExit' = 0
                          /\ runPc' = "exited"
                          /\ wp' = [state |-> IF WritePathSkipped(argv) THEN "skipped"
                                              ELSE "pending",
                                    awaited |-> FALSE]
                     ELSE /\ ra' = "returned"
                          /\ runExit' = Running
                          /\ runPc' = "awaiting"
                          /\ wp' = [state |-> IF WritePathSkipped(argv) THEN "skipped"
                                              ELSE "pending",
                                    awaited |-> TRUE]
    /\ UNCHANGED argv

\* Binaries.writePathToUserSettingsAsync resolves
WritePathResolves ==
    /\ wp.state = "pending"
    /\ runExit = Running
    /\ wp' = [wp EXCEPT !.state = "resolved"]
    /\ UNCHANGED <<argv, runPc, ra, runOut, ranHandler, runExit>>

\* Binaries.writePathToUserSettingsAsync rejects; Promise.all, if it was
\* built, rejects with it
WritePathRejects ==
    /\ wp.state = "pending"
    /\ runExit = Running
    /\ wp' = [wp EXCEPT !.state = "rejected"]
    /\ runPc' = IF runPc = "awaiting" THEN "rejected" ELSE runPc
    /\ UNCHANGED <<argv, ra, runOut, ranHandler, runExit>>

\* Promise.all resolves
Ready ==
    /\ runPc = "awaiting"
    /\ wp.state \in {"resolved", "skipped"}
    /\ runPc' = "ready"
    /\ UNCHANGED <<argv, wp, ra, runOut, ranHandler, runExit>>

\* run, lines 399-402
ReportUncaught ==
    /\ runPc = "rejected"
    /\ runOut' = Append(runOut, Reported("Uncaught Error",
                                         IF ra = "threw" THEN "runAsync" ELSE "writePathAsync"))
    /\ runExit' = 1
    /\ runPc' = "exited"
    /\ UNCHANGED <<argv, wp, ra, ranHandler>>

RunNext ==
    \/ Run /\ UNCHANGED <<cmdVars, barVars, pubVars>>
    \/ WritePathResolves /\ UNCHANGED <<cmdVars, barVars, pubVars>>
    \/ WritePathRejects /\ UNCHANGED <<cmdVars, barVars, pubVars>>
    \/ Ready /\ UNCHANGED <<cmdVars, barVars, pubVars>>
    \/ ReportUncaught /\ UNCHANGED <<cmdVars, barVars, pubVars>>

(***************************************************************************)
(* The publish action.                                                     *)
(***************************************************************************)
NoRecipient == ""

PubOptions == [quiet : BOOLEAN, sendTo : {NoRecipient, "me@example.com"}]

PubFail(p) == [p EXCEPT !.pc = "failed"]

\* line 20
PubStatus ==
    /\ pub.pc = "status"
    /\ \/ \E s \in Statuses :
             pub' = [pub EXCEPT !.statusAtEntry = s, !.running = (s = "running"),
                                !.pc = IF s # "running" THEN "start" ELSE "recipient"]
       \/ pub' = PubFail([pub EXCEPT !.statusAtEntry = "threw"])

\* lines 23-30
PubStart ==
    /\ pub.pc = "start"
    /\ LET p == [pub EXCEPT !.logs = Append(@, "Unable to find an existing exp instance"),
                            !.hooks = TRUE, !.startCalled = TRUE] IN
       \/ pub' = [p EXCEPT !.running = TRUE, !.startedOurOwn = TRUE, !.pc = "recipient"]
       \/ pub' = PubFail(p)

\* line 32
PubRecipient ==
    /\ pub.pc = "recipient"
    /\ \/ \E r \in {pub.options.sendTo, "saved@example.com"} :
             pub' = [pub EXCEPT !.recipient = r, !.pc = "publish"]
       \/ pub' = PubFail(pub)

\* lines 33-47
PubPublish ==
    /\ pub.pc = "publish"
    /\ LET p == [pub EXCEPT !.logs = Append(@, "Publishing..."),
                            !.spinner = pub.options.quiet] IN
       \/ pub' = [p EXCEPT !.spinner = FALSE,
                           !.logs = @ \o <<"Published", "Your URL is", "url">>,
                           !.pc = "send"]
       \/ pub' = PubFail(p)

\* lines 49-51
PubSend ==
    /\ pub.pc = "send"
    /\ IF pub.recipient # NoRecipient
       THEN \/ pub' = [pub EXCEPT !.sent = TRUE, !.pc = "stop"]
            \/ pub' = PubFail(pub)
       ELSE pub' = [pub EXCEPT !.pc = "stop"]

\* lines 53-57
PubStop ==
    /\ pub.pc = "stop"
    /\ IF pub.startedOurOwn
       THEN \/ pub' = [pub EXCEPT !.stopCalled = TRUE, !.running = FALSE, !.pc = "returned"]
            \/ pub' = PubFail([pub EXCEPT !.stopCalled = TRUE])
       ELSE pub' = [pub EXCEPT !.pc = "returned"]

PubNext ==
    \/ PubStatus /\ UNCHANGED <<cmdVars, barVars, runVars>>
    \/ PubStart /\ UNCHANGED <<cmdVars, barVars, runVars>>
    \/ PubRecipient /\ UNCHANGED <<cmdVars, barVars, runVars>>
    \/ PubPublish /\ UNCHANGED <<cmdVars, barVars, runVars>>
    \/ PubSend /\ UNCHANGED <<cmdVars, barVars, runVars>>
    \/ PubStop /\ UNCHANGED <<cmdVars, barVars, runVars>>

\* Each specification starts one part of the program and leaves the others at rest.
PubIdle ==
    [pc |-> "status", options |-> [quiet |-> FALSE, sendTo |-> NoRecipient],
     statusAtEntry |-> "notasked", running |-> FALSE, startedOurOwn |-> FALSE,
     startCalled |-> FALSE, stopCalled |-> FALSE, hooks |-> FALSE,
     recipient |-> NoRecipient, spinner |-> FALSE, logs |-> <<>>, sent |-> FALSE]

PubStates == {[PubIdle EXCEPT !.options = o] : o \in PubOptions}

InitCmd ==
    /\ cmd \in Commands
    /\ pc = "update"
    /\ trace = <<>>
    /\ out = <<>>
    /\ err = NoErr
    /\ failedAt = "none"
    /\ exitCode = Running
    /\ projectDir = NoDir
    /\ handlerArgs = <<>>
    /\ handlerInvoked = FALSE
    /\ env = EnvInit
    /\ bar = NoBar
    /\ live = {}
    /\ nextId = 0
    /\ logBar = 0
    /\ barOut = <<>>
    /\ session = SessionInit
    /\ argv = <<>>
    /\ runPc = "start"
    /\ wp = [state |-> "notstarted", awaited |-> FALSE]
    /\ ra = "notrun"
    /\ runOut = <<>>
    /\ ranHandler = "none"
    /\ runExit = Running
    /\ pub = PubIdle

InitBar ==
    /\ cmd = CHOOSE c \in Commands : c.wrapper = "asyncAction"
    /\ pc = "update"
    /\ trace = <<>>
    /\ out = <<>>
    /\ err = NoErr
    /\ failedAt = "none"
    /\ exitCode = Running
    /\ projectDir = NoDir
    /\ handlerArgs = <<>>
    /\ handlerInvoked = FALSE
    /\ env = EnvInit
    /\ bar = NoBar
    /\ live = {}
    /\ nextId = 0
    /\ logBar = 0
    /\ barOut = <<>>
    /\ session = SessionInit
    /\ argv = <<>>
    /\ runPc = "start"
    /\ wp = [state |-> "notstarted", awaited |-> FALSE]
    /\ ra = "notrun"
    /\ runOut = <<>>
    /\ ranHandler = "none"
    /\ runExit = Running
    /\ pub = PubIdle

InitRun ==
    /\ cmd = CHOOSE c \in Commands : c.wrapper = "asyncAction"
    /\ pc = "update"
    /\ trace = <<>>
    /\ out = <<>>
    /\ err = NoErr
    /\ failedAt = "none"
    /\ exitCode = Running
    /\ projectDir = NoDir
    /\ handlerArgs = <<>>
    /\ handlerInvoked = FALSE
    /\ env = EnvInit
    /\ bar = NoBar
    /\ live = {}
    /\ nextId = 0
    /\ logBar = 0
    /\ barOut = <<>>
    /\ session = SessionInit
    /\ argv \in Argvs
    /\ runPc = "start"
    /\ wp = [state |-> "notstarted", awaited |-> FALSE]
    /\ ra = "notrun"
    /\ runOut = <<>>
    /\ ranHandler = "none"
    /\ runExit = Running
    /\ pub = PubIdle

InitPublish ==
    /\ cmd = CHOOSE c \in Commands : c.wrapper = "asyncAction"
    /\ pc = "update"
    /\ trace = <<>>
    /\ out = <<>>
    /\ err = NoErr
    /\ failedAt = "none"
    /\ exitCode = Running
    /\ projectDir = NoDir
    /\ handlerArgs = <<>>
    /\ handlerInvoked = FALSE
    /\ env = EnvInit
    /\ bar = NoBar
    /\ live = {}
    /\ nextId = 0
    /\ logBar = 0
    /\ barOut = <<>>
    /\ session = SessionInit
    /\ argv = <<>>
    /\ runPc = "start"
    /\ wp = [state |-> "notstarted", awaited |-> FALSE]
    /\ ra = "notrun"
    /\ runOut = <<>>
    /\ ranHandler = "none"
    /\ runExit = Running
    /\ pub \in PubStates

(***************************************************************************)
(* The specifications.                                                     *)
(***************************************************************************)
SpecCmd == InitCmd /\ [][CmdNext]_vars

SpecBar == InitBar /\ [][BarNext]_vars

SpecRun == InitRun /\ [][RunNext]_vars

SpecPublish == InitPublish /\ [][PubNext]_vars

(***************************************************************************)
(* Properties of the action wrappers (checked under SpecCmd).              *)
(***************************************************************************)
InTrace(step) == \E i \in 1..Len(trace) : trace[i] = step

LinesBy(who) == {i \in 1..Len(out) : out[i].by = who}

StackPrinted == \E i \in 1..Len(out) : out[i] = StackLine

ProjectDirWrapped == cmd.wrapper = "asyncActionProjectDir"

\* C1: a failure thrown by the wrapped handler or by a step before it always
\* reaches the error boundary, which ends the process with exit code 1; for a
\* failure tagged as command, remote-API or library error the boundary prints
\* exactly one line; and a stack trace is printed only when EXPO_DEBUG is set.
C1_ErrorBoundary ==
    /\ failedAt # "none" => pc \in {"catch", "exited"}
    /\ pc = "exited" =>
          /\ failedAt # "none"
          /\ exitCode = 1
          /\ Tagged(err) => Cardinality(LinesBy("boundary")) = 1
          /\ ~Tagged(err) => Cardinality(LinesBy("boundary")) = 2
    /\ pc # "exited" => exitCode = Running /\ LinesBy("boundary") = {}
    /\ StackPrinted => cmd.debug

C1_Witness ==
    /\ pc = "exited"
    /\ failedAt = "login"
    /\ err.isXDLError /\ ~err._isApiError /\ ~err._isCommandError
    /\ cmd.debug
    /\ exitCode = 1

Steps == {"update", "resolve", "login", "ensure", "sink", "attach", "status",
          "validate", "handler"}

OriginalRank ==
    [step \in Steps |->
        CASE step = "update"   -> 0
          [] step = "resolve"  -> 1
          [] step = "login"    -> 2
          [] step = "ensure"   -> 3
          [] step = "sink"     -> 4
          [] step = "attach"   -> 5
          [] step = "status"   -> 6
          [] step = "validate" -> 7
          [] step = "handler"  -> 8]

AmendedRank ==
    [step \in Steps |->
        CASE step = "update"   -> 0
          [] step = "login"    -> 1
          [] step = "ensure"   -> 2
          [] step = "resolve"  -> 3
          [] step = "sink"     -> 4
          [] step = "attach"   -> 5
          [] step = "status"   -> 6
          [] step = "validate" -> 7
          [] step = "handler"  -> 8]

Ordered(rank) ==
    \A i, j \in 1..Len(trace) : i < j => rank[trace[i]] < rank[trace[j]]

\* C2 as stated: the steps of one asyncActionProjectDir invocation run in the
\* order resolve directory, login flow and session assertion, log sink,
\* logger stream, status check and validation, handler.
C2_OrderAsStated == ProjectDirWrapped => Ordered(OriginalRank)

\* C2 amended: the steps run strictly in the order login-or-register flow,
\* session assertion, directory resolution, log sink construction (for the
\* resolved directory), logger stream attachment, status check, validation,
\* handler; each at most once, none starting before the one before it ended,
\* and the handler is not called before the directory is resolved and the
\* sink and the stream are in place.
C2_OrderInCode ==
    ProjectDirWrapped =>
        /\ Ordered(AmendedRank)
        /\ InTrace("sink") => env.sinkRoot = ResolveProjectDir(cmd.dirArg)
        /\ InTrace("attach") => env.loggerRoot = ResolveProjectDir(cmd.dirArg)
        /\ handlerInvoked => InTrace("resolve") /\ InTrace("sink") /\ InTrace("attach")

C2_Witness ==
    /\ pc = "done"
    /\ trace = <<"update", "login", "ensure", "resolve", "sink", "attach",
                 "status", "validate", "handler">>

BeforeLogin == {"update", "options", "pd_update", "pd_login"}

BeforeEnsure == BeforeLogin \cup {"pd_ensure"}

\* C3: in asyncActionProjectDir the login-or-register flow runs exactly when
\* skipAuthCheck is false and neither non-interactive nor offline is set; the
\* session assertion runs exactly when skipAuthCheck is false (once the wrapper
\* gets to it, which a failed login flow prevents); with skipAuthCheck false
\* the handler is invoked only after the assertion succeeded, and a failed
\* assertion ends at the error boundary with exit code 1.
C3_AuthGate ==
    ProjectDirWrapped =>
        /\ InTrace("login") => ~cmd.skipAuthCheck /\ ~cmd.nonInteractive /\ ~cmd.offline
        /\ (pc \notin BeforeLogin /\ ~cmd.skipAuthCheck /\ ~cmd.nonInteractive /\ ~cmd.offline)
              => InTrace("login")
        /\ InTrace("ensure") => ~cmd.skipAuthCheck
        /\ (pc \notin BeforeEnsure /\ failedAt # "login" /\ ~cmd.skipAuthCheck)
              => InTrace("ensure")
        /\ (handlerInvoked /\ ~cmd.skipAuthCheck) => InTrace("ensure") /\ failedAt # "ensure"
        /\ failedAt = "ensure" =>
              /\ ~handlerInvoked
              /\ pc \in {"catch", "exited"}
              /\ pc = "exited" => exitCode = 1

C3_Witness ==
    /\ ProjectDirWrapped
    /\ cmd.offline /\ ~cmd.skipAuthCheck
    /\ ~InTrace("login")
    /\ failedAt = "ensure"
    /\ pc = "exited"
    /\ exitCode = 1

\* C4: in asyncActionProjectDir project validation runs exactly when
\* skipProjectValidation is false and the status query answered something
\* other than 'running'; a fatal outcome keeps the handler from being invoked
\* and ends at the error boundary with exit code 1; after a non-fatal outcome,
\* or when validation is not run, the handler is invoked with the resolved
\* directory in front of the original arguments.
C4_ValidationGate ==
    ProjectDirWrapped =>
        /\ InTrace("validate") =>
              ~cmd.skipProjectValidation /\ env.status \in Statuses \ {"running"}
        /\ (~cmd.skipProjectValidation /\ env.status \in Statuses \ {"running"})
              => pc = "pd_validate" \/ InTrace("validate")
        /\ cmd.skipProjectValidation => env.status = "notasked" /\ ~InTrace("status")
        /\ env.doctor = "FATAL" =>
              /\ ~handlerInvoked
              /\ failedAt = "validate"
              /\ pc \in {"catch", "exited"}
              /\ pc = "exited" => exitCode = 1
        /\ env.doctor \in {"NO_ISSUES", "WARNING"} => pc = "handler" \/ handlerInvoked
        /\ (InTrace("attach") /\ pc # "pd_status"
               /\ (cmd.skipProjectValidation \/ env.status = "running"))
              => (pc = "handler" \/ handlerInvoked) /\ ~InTrace("validate")
        /\ handlerInvoked =>
              /\ Len(handlerArgs) = Len(OrigArgs(cmd))
              /\ Tail(handlerArgs) = Tail(OrigArgs(cmd))
              /\ cmd.dirArg = NoDir => handlerArgs[1] = <<"home", "u">>
              /\ cmd.dirArg = [abs |-> FALSE, segs |-> <<"app">>]
                    => handlerArgs[1] = <<"home", "u", "app">>
              /\ cmd.dirArg = [abs |-> FALSE, segs |-> <<"..", "app">>]
                    => handlerArgs[1] = <<"home", "app">>
              /\ cmd.dirArg = [abs |-> TRUE, segs |-> <<"srv", "app">>]
                    => handlerArgs[1] = <<"srv", "app">>

C4_Witness ==
    /\ ProjectDirWrapped
    /\ env.status = "exited"
    /\ env.doctor = "FATAL"
    /\ pc = "exited"
    /\ exitCode = 1
    /\ ~handlerInvoked

UpdateLinesPrinted == [i \in 1..Cardinality(LinesBy("update")) |->
                          out[CHOOSE k \in LinesBy("update") :
                                 Cardinality({m \in LinesBy("update") : m < k}) = i - 1]]

\* C7: whatever the version query gives (one of the three named states, any
\* other state, or a failure) the update check never fails or blocks the
\* command: no failure ever comes from it, the wrapper goes on to the next
\* step, and the handler is invoked unless a later step fails.  The upgrade
\* advisory is printed only for 'out-of-date', nothing for 'up-to-date' and
\* 'ahead-of-published', the confused-state warning exactly for another state.
C7_UpdateCheckBestEffort ==
    /\ failedAt # "update"
    /\ env.update # "notasked" => pc \notin {"update", "pd_update"}
    /\ (env.update # "notasked" /\ pc \in {"catch", "exited"}) => failedAt # "none"
    /\ (pc = "done" \/ failedAt = "handler") => handlerInvoked
    /\ env.update = "out-of-date" => UpdateLinesPrinted = <<AdvisoryLine>>
    /\ env.update \in {"up-to-date", "ahead-of-published", "threw", "notasked"}
          => UpdateLinesPrinted = <<>>
    /\ env.update \in UpdateStates \ {"up-to-date", "out-of-date", "ahead-of-published"}
          => UpdateLinesPrinted = <<ConfusedLine>>

C7_Witness ==
    /\ env.update = "threw"
    /\ handlerInvoked
    /\ pc = "done"
    /\ exitCode = Running

(***************************************************************************)
(* Properties of the progress indicator (checked under SpecBar).           *)
(***************************************************************************)
\* C5: within one build session the indicator's value never decreases; a
\* progress notification whose percentage is not above the current value
\* leaves the indicator unchanged; after an increasing sequence p1 < ... < pn
\* the total advancement is pn minus the starting value 0; no progress
\* notification changes a complete indicator; and a build-finished
\* notification tears the indicator down at exactly 100.
C5_ProgressMonotone ==
    /\ (session.event = "progress" /\ session.prev # NoBar) =>
          /\ bar # NoBar
          /\ bar.id = session.prev.id
          /\ bar.curr >= session.prev.curr
          /\ session.percent <= session.prev.curr => bar = session.prev
          /\ session.prev.complete => bar = session.prev
          /\ (session.percent > session.prev.curr /\ ~session.prev.complete)
                => bar.curr = session.percent
    /\ (session.last >= 0 /\ session.increasing) => session.advanced = session.last - 0
    /\ session.finish # NoFinish =>
          /\ session.finish.tornDown.curr = 100
          /\ session.finish.tornDown.complete
          /\ session.finish.tornDown.curr >= session.finish.before.curr
    /\ bar # NoBar => bar.curr \in 0..100 /\ (bar.complete <=> bar.curr = 100)

C5_Witness ==
    /\ session.event = "finish"
    /\ session.finish # NoFinish
    /\ session.finish.before.curr = 50
    /\ session.increasing
    /\ session.advanced = 50
    /\ session.finish.tornDown.curr = 100

\* C6 as stated: a build-started notification while an indicator is active
\* creates no duplicate, so at most one indicator is created and not torn
\* down; and every build-finished notification returns to absent and prints
\* one summary.
C6_SingleIndicatorAsStated ==
    /\ Cardinality(live) <= 1
    /\ (session.event = "start" /\ session.prev # NoBar) => bar = session.prev
    /\ session.event = "finish" => bar = NoBar /\ session.printed = 1

\* C6 amended: the indicator follows absent -> active -> complete -> absent;
\* a build-started notification always creates a fresh indicator at 0, and
\* when one is already active it replaces that one without tearing it down
\* (so the closure and the logger hold at most one indicator, the latest,
\* while the replaced ones stay created and not torn down); a build-finished
\* notification always returns to absent, and prints exactly one summary when
\* an indicator was present and none when it was absent.
C6_SingleIndicatorInCode ==
    /\ bar # NoBar => logBar = bar.id /\ bar.id = nextId /\ bar.id \in live
    /\ bar = NoBar => logBar = 0 \/ session.event = "none"
    /\ live \subseteq 1..nextId
    /\ session.event = "start" =>
          /\ bar = NewBar(nextId)
          /\ session.prev # NoBar => session.prev.id \in live /\ session.prev.id # bar.id
    /\ session.event = "progress" =>
          /\ session.prev = NoBar <=> bar = NoBar
          /\ session.prev # NoBar => bar.id = session.prev.id
          /\ (session.prev # NoBar /\ session.prev.complete) => bar.complete
    /\ session.event = "finish" =>
          /\ bar = NoBar
          /\ logBar = 0
          /\ session.printed = IF session.prev # NoBar THEN 1 ELSE 0
          /\ session.prev # NoBar => session.prev.id \notin live

C6_Witness ==
    /\ session.event = "finish"
    /\ session.prev # NoBar
    /\ session.printed = 1
    /\ Cardinality(live) = 1
    /\ nextId = 2

(***************************************************************************)
(* Properties of the entry point (checked under SpecRun).                  *)
(***************************************************************************)
Printed(line) == \E i \in 1..Len(runOut) : runOut[i] = line

\* C8: when runAsync runs to its end or to an exit, the not-an-exp-command
\* message for the first argument is printed exactly when that argument is
\* neither a name nor an alias of a registered command, and then no handler
\* is executed; with no argument, top-level help is shown and no handler runs.
C8_DispatchAsStated ==
    ra \in {"returned", "exited"} =>
        /\ argv # <<>> =>
              /\ Printed(NotACommand(argv[1])) <=> argv[1] \notin CommandNames
              /\ argv[1] \notin CommandNames => ranHandler = "none"
        /\ argv = <<>> => Printed(HelpText("program")) /\ ranHandler = "none"

\* C9: both tasks are started; path registration is skipped exactly for
\* 'prepare-detached-build'; every failure of either task ends the process
\* with a non-zero exit code and is reported; and no failure is left
\* unobserved, that is, a rejected writePathAsync promise is one that
\* Promise.all was given.
C9_EntryPointAsStated ==
    /\ runPc # "start" => wp.state # "notstarted" /\ ra # "notrun"
    /\ wp.state = "skipped" <=>
          (runPc # "start" /\ argv # <<>> /\ argv[1] = "prepare-detached-build")
    /\ (runPc = "exited" /\ (ra = "threw" \/ wp.state = "rejected")) =>
          /\ runExit = 1
          /\ \E who \in {"runAsync", "writePathAsync"} : Printed(Reported("Uncaught Error", who))
    /\ wp.state = "rejected" => wp.awaited

(***************************************************************************)
(* Properties of the publish action (checked under SpecPublish).           *)
(***************************************************************************)
\* C10: however the publish action ends, Project.stopAsync has been called
\* exactly when the action started the server itself; a server found running
\* is never stopped, and a server the action started is never left running.
C10_PublishRestoresServerAsStated ==
    pub.pc \in {"returned", "failed"} =>
        /\ pub.stopCalled <=> pub.startedOurOwn
        /\ pub.statusAtEntry = "running" => ~pub.stopCalled
        /\ pub.startedOurOwn => ~pub.running

============================================================================
